---- MODULE Spec2Model ----
(***************************************************************************)
(* The credential-issuance component, src/src/pages/CredentialUpload.jsx.  *)
(*                                                                         *)
(* The component is a single-threaded, event-driven React function         *)
(* component.  Every action below is one run-to-completion piece of it:    *)
(* the synchronous part of an event handler up to its first await, or the  *)
(* continuation of a handler after an awaited promise settled, together    *)
(* with the catch/finally blocks that run in the same turn.  React commits *)
(* the state updates of a turn and re-renders before the next event is     *)
(* delivered, so a handler that starts reads the committed state, while a  *)
(* continuation keeps the values its closure captured when it started      *)
(* (formData, account, contract).                                          *)
(***************************************************************************)
EXTENDS Integers, Sequences, FiniteSets, TLC

\* ---------------------------------------------------------------- bounds
\* ipfsService.uploadImage calls outstanding at once.
MaxUploads == 2
\* FileReader reads outstanding at once.
MaxReads == 1
\* handleSubmit invocations suspended at once.
MaxSubs == 2
\* new Date() reads one of the instants 0..MaxClock.
MaxClock == 1

\* ------------------------------------------------------ program constants
\* "up to 10MB" in the supported-formats hint.
SizeLimitMB == 10

validTypes ==
  { "image/jpeg", "image/png", "image/gif", "application/pdf",
    "application/vnd.openxmlformats-officedocument.wordprocessingml.document" }

\* file.type.startsWith('image/'), over the MIME types the model draws from.
StartsWithImage(t) == t \in {"image/jpeg", "image/png", "image/gif", "image/webp"}

\* useState initial values.
InitialFormData ==
  [ studentAddress |-> "", studentName |-> "", credentialType |-> "",
    institution |-> "", imageHash |-> "", imageUrl |-> "" ]

null == "null"

\* ------------------------------------------------------------ input sets
\* e.target.files[0]: undefined when the dialog is cancelled.
NoFile == [type |-> "", size |-> 0]
Files ==
  { [type |-> "image/png",       size |-> 1],
    [type |-> "application/pdf", size |-> SizeLimitMB + 1],
    [type |-> "text/plain",      size |-> 1] }

\* What ipfsService.uploadImage may resolve with.
UploadResults ==
  { [hash |-> "QmImgA", url |-> "https://gateway/ipfs/QmImgA"],
    [hash |-> "QmImgB", url |-> "https://gateway/ipfs/QmImgB"] }
\* What ipfsService.uploadJSON may resolve with.
MetadataHashes == {"QmMetaA", "QmMetaB"}

\* Text typed into the four form fields.
FieldNames == {"credentialType", "institution", "studentAddress", "studentName"}
FieldValues(name) ==
  CASE name = "credentialType" -> {""}
    [] name = "institution"    -> {""}
    [] name = "studentAddress" -> {"", "0xStudent"}
    [] name = "studentName"    -> {""}

\* useWeb3(): both may be absent.
NoAccount == ""
Accounts == {NoAccount, "0xIssuer"}

VARIABLES
  step, uploading, imagePreview, formData, isBlockchainUploading, isSubmitting,
  account, contract,
  uploads,        \* files whose ipfsService.uploadImage call is outstanding
  readers,        \* FileReader.readAsDataURL calls outstanding
  subs,           \* handleSubmit invocations suspended at an await
  last,           \* history: the last turn taken and what it showed the user
  prevRun,        \* history: the last finished submission that called the contract
  keepRuns,       \* whether prevRun is kept (it is by SpecRuns)
  newest          \* history: the newest selection whose upload succeeded

vars ==
  << step, uploading, imagePreview, formData, isBlockchainUploading, isSubmitting,
     account, contract, uploads, readers, subs, last, prevRun, keepRuns,
     newest >>

\* The component state handleSubmit does not own.
formVars == << step, formData, imagePreview >>
flagVars == << uploading, isSubmitting, isBlockchainUploading >>
web3Vars == << account, contract >>
histVars == << prevRun, keepRuns, newest >>

Turn(op, notice) == [op |-> op, notice |-> notice]

RemoveAt(s, i) == SubSeq(s, 1, i - 1) \o SubSeq(s, i + 1, Len(s))

\* No upload has succeeded, or the user discarded the one that had.
NoUpload == [hash |-> "", url |-> ""]

\* newest.result is what uploadImage returned for the most recently selected file
\* among those whose upload succeeded; uploads[1..newest.older] were selected
\* before that file and the rest of uploads after it. Kept only when newest.on.
NotKept == [on |-> FALSE, older |-> 0, result |-> NoUpload]
Kept == [on |-> TRUE, older |-> 0, result |-> NoUpload]

\* The history after the outstanding upload i settled, with result or by failing.
Settled(i, ok, result) ==
  IF ~newest.on THEN newest
  ELSE IF i <= newest.older THEN [newest EXCEPT !.older = newest.older - 1]
  ELSE IF ok THEN [newest EXCEPT !.older = i - 1, !.result = result]
  ELSE newest

\* The history after the user discarded the uploaded file.
Discarded == IF newest.on THEN [newest EXCEPT !.result = NoUpload] ELSE newest

Init ==
  /\ step = 1
  /\ uploading = FALSE
  /\ imagePreview = null
  /\ formData = InitialFormData
  /\ isBlockchainUploading = FALSE
  /\ isSubmitting = FALSE
  /\ account \in Accounts
  /\ contract \in BOOLEAN
  /\ uploads = << >>
  /\ readers = 0
  /\ subs = << >>
  /\ last = Turn("mount", "none")
  /\ prevRun = << >>
  /\ keepRuns = FALSE
  /\ newest = NotKept

\* ------------------------------------------------------ handleFileChange
\* Mutant: the type check accepts every file.
TypeAccepted_Any(file) == TRUE

\* validTypes.includes(file.type)
TypeAccepted(file) == file.type \in validTypes

\* The step-1 view (form, file input, fields) is rendered.
FormShown == step = 1

\* handleFileChange up to `await ipfsService.uploadImage(file)`.
FileChange(file) ==
  /\ FormShown
  /\ IF file = NoFile
       THEN /\ last' = Turn("event", "none")
            /\ UNCHANGED << uploading, imagePreview, uploads, readers >>
     ELSE IF ~TypeAccepted(file)
       THEN /\ last' = Turn("handleFileChange:badType", "alert")
            /\ UNCHANGED << uploading, imagePreview, uploads, readers >>
     ELSE /\ Len(uploads) < MaxUploads
          /\ StartsWithImage(file.type) => readers < MaxReads
          /\ uploading' = TRUE
          /\ IF StartsWithImage(file.type)
               THEN readers' = readers + 1 /\ UNCHANGED imagePreview
               ELSE imagePreview' = null /\ UNCHANGED readers
          /\ uploads' = Append(uploads, file)
          /\ last' = Turn("event", "none")
  /\ UNCHANGED << step, formData, isBlockchainUploading, isSubmitting,
                  account, contract, subs, histVars >>

\* reader.result: a data URL, or null when the read failed.
ReaderResults == {"data:image/png;base64", null}

\* reader.onloadend
ReaderLoadEnd(result) ==
  /\ readers > 0
  /\ readers' = readers - 1
  /\ imagePreview' = result
  /\ last' = Turn("event", "none")
  /\ UNCHANGED << step, uploading, formData, isBlockchainUploading, isSubmitting,
                  account, contract, uploads, subs, histVars >>

\* handleFileChange after uploadImage resolved, and its finally block.
UploadImageResolve(i, result) ==
  /\ i \in 1..Len(uploads)
  /\ uploads' = RemoveAt(uploads, i)
  /\ formData' = [formData EXCEPT !.imageHash = result.hash, !.imageUrl = result.url]
  /\ uploading' = FALSE
  /\ last' = Turn("event", "none")
  /\ newest' = Settled(i, TRUE, result)
  /\ UNCHANGED << step, imagePreview, isBlockchainUploading, isSubmitting,
                  account, contract, readers, subs, prevRun, keepRuns >>

\* What the catch block of handleFileChange shows the user: console.error only.
FileUploadFailedNotice == "none"

\* handleFileChange after uploadImage rejected: catch, then finally.
UploadImageReject(i) ==
  /\ i \in 1..Len(uploads)
  /\ uploads' = RemoveAt(uploads, i)
  /\ imagePreview' = null
  /\ uploading' = FALSE
  /\ last' = Turn("handleFileChange:failed", FileUploadFailedNotice)
  /\ newest' = Settled(i, FALSE, NoUpload)
  /\ UNCHANGED << step, formData, isBlockchainUploading, isSubmitting,
                  account, contract, readers, subs, prevRun, keepRuns >>

\* The remove button shown over the preview.
RemovePreview ==
  /\ FormShown
  /\ imagePreview # null
  /\ imagePreview' = null
  /\ formData' = [formData EXCEPT !.imageHash = "", !.imageUrl = ""]
  /\ last' = Turn("event", "none")
  /\ newest' = Discarded
  /\ UNCHANGED << step, uploading, isBlockchainUploading, isSubmitting,
                  account, contract, uploads, readers, subs, prevRun, keepRuns >>

\* onChange of the select and the three text inputs.
InputChange(name, value) ==
  /\ FormShown
  /\ formData' = [formData EXCEPT ![name] = value]
  /\ last' = Turn("event", "none")
  /\ UNCHANGED << step, uploading, imagePreview, isBlockchainUploading, isSubmitting,
                  account, contract, uploads, readers, subs, histVars >>

\* The wallet context hands the component another account or contract client.
Web3Change(a, c) ==
  /\ account' = a
  /\ contract' = c
  /\ last' = Turn("event", "none")
  /\ UNCHANGED << step, uploading, imagePreview, formData, isBlockchainUploading,
                  isSubmitting, uploads, readers, subs, histVars >>

\* ---------------------------------------------------------- handleSubmit
\* new Date().toISOString()
ToISOString(t) == "2026-01-01T00:00:0" \o ToString(t) \o ".000Z"

\* The metadata object literal, built from the values the handler's closure holds.
Metadata(fd, acct, t) ==
  [ studentName    |-> fd.studentName,
    studentAddress |-> fd.studentAddress,
    credentialType |-> fd.credentialType,
    institution    |-> fd.institution,
    issuerAddress  |-> acct,
    imageHash      |-> fd.imageHash,
    imageUrl       |-> fd.imageUrl,
    issueDate      |-> ToISOString(t) ]

JSONMember(key, value) == "\"" \o key \o "\":\"" \o value \o "\""

\* JSON.stringify(metadata): the members in the literal's order.
JSONStringify(m) ==
  "{" \o JSONMember("studentName", m.studentName)
      \o "," \o JSONMember("studentAddress", m.studentAddress)
      \o "," \o JSONMember("credentialType", m.credentialType)
      \o "," \o JSONMember("institution", m.institution)
      \o "," \o JSONMember("issuerAddress", m.issuerAddress)
      \o "," \o JSONMember("imageHash", m.imageHash)
      \o "," \o JSONMember("imageUrl", m.imageUrl)
      \o "," \o JSONMember("issueDate", m.issueDate) \o "}"

\* ethers.keccak256(ethers.toUtf8Bytes(s)): the digest as a term over the bytes
\* hashed (equal bytes give equal digests, and no two inputs of the model collide).
keccak256(s) == "0xkeccak256(" \o s \o ")"

\* Mutant: the hash is taken over a document rebuilt from the live form state.
CertificateHash_LiveForm(metadata) ==
  keccak256(JSONStringify([metadata EXCEPT !.studentAddress = formData.studentAddress]))

\* const certificateHash = ...
CertificateHash(metadata) == keccak256(JSONStringify(metadata))

\* Mutant: the file hash and the metadata hash change places.
IssueCredentialArgs_Swapped(fd, certificateHash, metadataHash, acct) ==
  << fd.studentAddress, certificateHash, metadataHash, fd.imageHash, acct >>

\* Mutant: the call reads the live form state and account, not the captured ones.
IssueCredentialArgs_Live(fd, certificateHash, metadataHash, acct) ==
  << formData.studentAddress, certificateHash, formData.imageHash, metadataHash, account >>

\* The arguments of contract.issueCredential, the options object's `from` last.
IssueCredentialArgs(fd, certificateHash, metadataHash, acct) ==
  << fd.studentAddress, certificateHash, fd.imageHash, metadataHash, acct >>

NoCall == << >>

\* Mutants: a guard of handleSubmit is missing.
AlreadySubmitting_Skipped == FALSE
NoImageHash_Skipped == FALSE
NoContract_Skipped == FALSE

\* if (isSubmitting) return
AlreadySubmitting == isSubmitting
\* if (!formData.imageHash)
NoImageHash == formData.imageHash = ""
\* if (!account)
NoAccountConnected == account = NoAccount
\* if (!contract)
NoContract == ~contract

\* handleSubmit up to `await toast.promise(ipfsService.uploadJSON(metadata), ...)`;
\* t is the instant new Date() reads.
HandleSubmit(t) ==
  IF AlreadySubmitting
    THEN /\ last' = Turn("handleSubmit:ignored", "none")
         /\ UNCHANGED << flagVars, subs >>
  ELSE IF NoImageHash
    THEN /\ last' = Turn("handleSubmit:noFile", "toast.error")
         /\ UNCHANGED << flagVars, subs >>
  ELSE IF NoAccountConnected
    THEN /\ last' = Turn("handleSubmit:noAccount", "toast.error")
         /\ UNCHANGED << flagVars, subs >>
  ELSE IF NoContract
    THEN /\ last' = Turn("handleSubmit:noContract", "toast.error")
         /\ UNCHANGED << flagVars, subs >>
  ELSE /\ Len(subs) < MaxSubs
       /\ isSubmitting' = TRUE
       /\ uploading' = TRUE
       /\ isBlockchainUploading' = TRUE
       /\ subs' = Append(subs,
              [ pc              |-> "uploadJSON",
                formData        |-> formData,
                account         |-> account,
                metadata        |-> Metadata(formData, account, t),
                metadataHash    |-> "",
                certificateHash |-> "",
                call            |-> NoCall,
                trace           |-> << "uploadJSON" >> ])
       /\ last' = Turn("handleSubmit:uploadJSON", "toast.loading")

\* The submit button: disabled={isSubmitting || uploading}
SubmitDisabled == isSubmitting \/ uploading

\* The user presses the enabled submit button.
SubmitClick(t) ==
  /\ FormShown
  /\ ~SubmitDisabled
  /\ HandleSubmit(t)
  /\ UNCHANGED << formVars, web3Vars, uploads, readers, histVars >>

\* A submit event reaches the form's onSubmit by another way than the button
\* (form.requestSubmit(), a dispatched event): the case line 83 guards against.
SubmitEvent(t) ==
  /\ FormShown
  /\ HandleSubmit(t)
  /\ UNCHANGED << formVars, web3Vars, uploads, readers, histVars >>

\* History: a handler that called the contract has finished.
KeepRun(s) ==
  /\ prevRun' = IF keepRuns /\ s.call # NoCall
                  THEN << [formData |-> s.formData, account |-> s.account,
                           metadata |-> s.metadata, call |-> s.call] >>
                  ELSE prevRun
  /\ UNCHANGED << keepRuns, newest >>

\* Mutant: the finally block forgets setIsSubmitting(false).
Finally_KeepsSubmitting ==
  /\ uploading' = FALSE
  /\ isBlockchainUploading' = FALSE
  /\ UNCHANGED isSubmitting

\* Mutant: the finally block forgets setUploading(false).
Finally_KeepsUploading ==
  /\ isSubmitting' = FALSE
  /\ isBlockchainUploading' = FALSE
  /\ UNCHANGED uploading

\* The finally block.
Finally ==
  /\ isSubmitting' = FALSE
  /\ uploading' = FALSE
  /\ isBlockchainUploading' = FALSE

\* Mutant: setStep(2) runs on the failure path too.
Catch_SetsStep(i, op) ==
  /\ subs' = RemoveAt(subs, i)
  /\ last' = Turn(op, "toast.error")
  /\ step' = 2
  /\ isSubmitting' = FALSE
  /\ uploading' = FALSE
  /\ isBlockchainUploading' = FALSE
  /\ UNCHANGED << formData, imagePreview, web3Vars, uploads, readers, histVars >>

\* The catch block: toast.error(`Failed to issue credential: ...`), then finally.
Catch(i, op) ==
  /\ subs' = RemoveAt(subs, i)
  /\ last' = Turn(op, "toast.error")
  /\ Finally
  /\ KeepRun(subs[i])
  /\ UNCHANGED << formVars, web3Vars, uploads, readers >>

\* uploadJSON resolved: hash the metadata and call contract.issueCredential.
UploadJSONResolve(i, metadataHash) ==
  /\ i \in 1..Len(subs)
  /\ subs[i].pc = "uploadJSON"
  /\ LET s  == subs[i]
         ch == CertificateHash(s.metadata)
     IN subs' = [subs EXCEPT ![i] =
          [ s EXCEPT !.pc = "issueCredential",
                     !.metadataHash = metadataHash,
                     !.certificateHash = ch,
                     !.call = IssueCredentialArgs(s.formData, ch, metadataHash, s.account),
                     !.trace = s.trace \o << "uploadJSON:ok", "keccak256", "issueCredential" >> ]]
  /\ last' = Turn("handleSubmit:issueCredential", "toast.loading")
  /\ UNCHANGED << formVars, flagVars, web3Vars, uploads, readers, histVars >>

UploadJSONReject(i) ==
  /\ i \in 1..Len(subs)
  /\ subs[i].pc = "uploadJSON"
  /\ Catch(i, "handleSubmit:uploadJSON:failed")

\* issueCredential resolved with a transaction: tx.wait().
IssueCredentialResolve(i) ==
  /\ i \in 1..Len(subs)
  /\ subs[i].pc = "issueCredential"
  /\ subs' = [subs EXCEPT ![i] =
       [ @ EXCEPT !.pc = "tx.wait",
                  !.trace = @ \o << "issueCredential:ok", "tx.wait" >> ]]
  /\ last' = Turn("handleSubmit:tx.wait", "toast.loading")
  /\ UNCHANGED << formVars, flagVars, web3Vars, uploads, readers, histVars >>

IssueCredentialReject(i) ==
  /\ i \in 1..Len(subs)
  /\ subs[i].pc = "issueCredential"
  /\ Catch(i, "handleSubmit:issueCredential:failed")

\* tx.wait() resolved: setStep(2), then finally.
TxWaitResolve(i) ==
  /\ i \in 1..Len(subs)
  /\ subs[i].pc = "tx.wait"
  /\ step' = 2
  /\ subs' = RemoveAt(subs, i)
  /\ last' = Turn("handleSubmit:confirmed", "toast.success")
  /\ Finally
  /\ KeepRun(subs[i])
  /\ UNCHANGED << formData, imagePreview, web3Vars, uploads, readers >>

TxWaitReject(i) ==
  /\ i \in 1..Len(subs)
  /\ subs[i].pc = "tx.wait"
  /\ Catch(i, "handleSubmit:tx.wait:failed")

\* The "Issue Another Certificate" button of the step-2 view.
IssueAnother ==
  /\ step = 2
  /\ step' = 1
  /\ formData' = InitialFormData
  /\ imagePreview' = null
  /\ last' = Turn("event", "none")
  /\ newest' = Discarded
  /\ UNCHANGED << flagVars, web3Vars, uploads, readers, subs, prevRun, keepRuns >>

\* ---------------------------------------------------------- specification
Next ==
  \/ \E file \in Files \cup {NoFile} : FileChange(file)
  \/ \E result \in ReaderResults : ReaderLoadEnd(result)
  \/ \E i \in 1..MaxUploads, result \in UploadResults : UploadImageResolve(i, result)
  \/ \E i \in 1..MaxUploads : UploadImageReject(i)
  \/ RemovePreview
  \/ \E name \in FieldNames : \E value \in FieldValues(name) : InputChange(name, value)
  \/ \E a \in Accounts, c \in BOOLEAN : Web3Change(a, c)
  \/ \E t \in 0..MaxClock : SubmitClick(t)
  \/ \E t \in 0..MaxClock : SubmitEvent(t)
  \/ \E i \in 1..MaxSubs, h \in MetadataHashes : UploadJSONResolve(i, h)
  \/ \E i \in 1..MaxSubs : UploadJSONReject(i)
  \/ \E i \in 1..MaxSubs : IssueCredentialResolve(i)
  \/ \E i \in 1..MaxSubs : IssueCredentialReject(i)
  \/ \E i \in 1..MaxSubs : TxWaitResolve(i)
  \/ \E i \in 1..MaxSubs : TxWaitReject(i)
  \/ IssueAnother

Spec == Init /\ [][Next]_vars

\* Repeated runs of the workflow on a form whose file is already uploaded, the
\* last finished run kept for comparison with the next.
InitRuns ==
  /\ step = 1
  /\ uploading = FALSE
  /\ imagePreview = null
  /\ \E r \in UploadResults :
       formData = [InitialFormData EXCEPT !.imageHash = r.hash, !.imageUrl = r.url]
  /\ isBlockchainUploading = FALSE
  /\ isSubmitting = FALSE
  /\ account \in Accounts
  /\ contract \in BOOLEAN
  /\ uploads = << >>
  /\ readers = 0
  /\ subs = << >>
  /\ last = Turn("event", "none")
  /\ prevRun = << >>
  /\ keepRuns = TRUE
  /\ newest = NotKept

NextRuns ==
  \/ \E name \in FieldNames : \E value \in FieldValues(name) : InputChange(name, value)
  \/ \E a \in Accounts, c \in BOOLEAN : Web3Change(a, c)
  \/ \E t \in 0..MaxClock : SubmitClick(t)
  \/ \E t \in 0..MaxClock : SubmitEvent(t)
  \/ \E i \in 1..MaxSubs, h \in MetadataHashes : UploadJSONResolve(i, h)
  \/ \E i \in 1..MaxSubs : UploadJSONReject(i)
  \/ \E i \in 1..MaxSubs : IssueCredentialResolve(i)
  \/ \E i \in 1..MaxSubs : IssueCredentialReject(i)
  \/ \E i \in 1..MaxSubs : TxWaitResolve(i)
  \/ \E i \in 1..MaxSubs : TxWaitReject(i)
  \/ IssueAnother

SpecRuns == InitRuns /\ [][NextRuns]_vars

\* The promise a suspended handleSubmit awaits settles: it resolves or rejects.
SettleSubmission ==
  \E i \in 1..MaxSubs :
    \/ \E h \in MetadataHashes : UploadJSONResolve(i, h)
    \/ UploadJSONReject(i)
    \/ IssueCredentialResolve(i)
    \/ IssueCredentialReject(i)
    \/ TxWaitResolve(i)
    \/ TxWaitReject(i)

\* Every awaited external call eventually resolves or rejects.
SpecRunsFair == InitRuns /\ [][NextRuns]_vars /\ WF_vars(SettleSubmission)

\* The file input alone, from the mounted component, with the history of
\* selections kept.
InitFiles ==
  /\ step = 1
  /\ uploading = FALSE
  /\ imagePreview = null
  /\ formData = InitialFormData
  /\ isBlockchainUploading = FALSE
  /\ isSubmitting = FALSE
  /\ account \in Accounts
  /\ contract \in BOOLEAN
  /\ uploads = << >>
  /\ readers = 0
  /\ subs = << >>
  /\ last = Turn("mount", "none")
  /\ prevRun = << >>
  /\ keepRuns = FALSE
  /\ newest = Kept

NextFiles ==
  \/ \E file \in Files \cup {NoFile} : FileChange(file)
  \/ \E result \in ReaderResults : ReaderLoadEnd(result)
  \/ \E i \in 1..MaxUploads, result \in UploadResults : UploadImageResolve(i, result)
  \/ \E i \in 1..MaxUploads : UploadImageReject(i)
  \/ RemovePreview

SpecFiles == InitFiles /\ [][NextFiles]_vars

\* ------------------------------------------------------------ properties
\* The suspended handleSubmit invocations.
Subs == { subs[i] : i \in 1..Len(subs) }

\* contract.issueCredential has been called by handler s.
Called(s) == s.pc \in {"issueCredential", "tx.wait"}

\* The turns of handleSubmit: its start, and its continuations.
SubmitStartOps ==
  { "handleSubmit:ignored", "handleSubmit:noFile", "handleSubmit:noAccount",
    "handleSubmit:noContract", "handleSubmit:uploadJSON" }
SubmitFailedOps ==
  { "handleSubmit:uploadJSON:failed", "handleSubmit:issueCredential:failed",
    "handleSubmit:tx.wait:failed" }
SubmitOps ==
  SubmitStartOps \cup SubmitFailedOps
    \cup { "handleSubmit:issueCredential", "handleSubmit:tx.wait", "handleSubmit:confirmed" }

\* The external operations of a submission, in the order the code awaits them.
FullTrace ==
  << "uploadJSON", "uploadJSON:ok", "keccak256", "issueCredential",
     "issueCredential:ok", "tx.wait" >>

\* C1: contract.issueCredential is called only after an uploadImage call resolved
\* and handleFileChange stored its hash in formData.imageHash, and after the
\* uploadJSON call of the same submission resolved.
C1_ContractCallAfterBothUploads ==
  \A s \in Subs :
    Called(s) =>
      /\ s.formData.imageHash \in { r.hash : r \in UploadResults }
      /\ s.call[3] = s.formData.imageHash
      /\ s.metadataHash \in MetadataHashes
      /\ SubSeq(s.trace, 1, 4) = SubSeq(FullTrace, 1, 4)

C1_Witness == \E s \in Subs : Called(s)

\* C2: handleSubmit invoked with formData.imageHash empty, or without an account,
\* or without a contract client starts no metadata upload and no contract call and
\* leaves step, formData and the three flags as they were; it reports an error
\* (when no submission is in flight: line 83 returns before the three checks).
C2_BlockedSubmitChangesNothing ==
  [][ ( /\ last'.op \in SubmitStartOps
        /\ (formData.imageHash = "" \/ account = NoAccount \/ ~contract) )
      => /\ subs' = subs
         /\ UNCHANGED << formVars, flagVars, web3Vars, uploads, readers >>
         /\ last'.notice = IF isSubmitting THEN "none" ELSE "toast.error" ]_vars

C2_Witness ==
  /\ last.op = "handleSubmit:noContract"
  /\ formData.imageHash # ""
  /\ account # NoAccount
  /\ ~contract

\* C3: a submit event that arrives while a submission is in flight is a no-op, so
\* at most one handler is in flight and it calls issueCredential at most once.
C3_SecondSubmitIsNoOp ==
  /\ [](Len(subs) <= 1)
  /\ [](\A s \in Subs : isSubmitting /\ Len(SelectSeq(s.trace, LAMBDA e : e = "issueCredential")) <= 1)
  /\ [][ (last'.op \in SubmitStartOps /\ subs # << >>)
         => /\ last'.op = "handleSubmit:ignored"
            /\ subs' = subs
            /\ UNCHANGED << formVars, flagVars, web3Vars, uploads, readers >> ]_vars

C3_Witness == last.op = "handleSubmit:ignored" /\ Len(subs) = 1

\* C4 as claimed: no file of a non-accepted type is uploaded, and a submit that
\* follows the selection of such a file starts no metadata upload.
C4_Original ==
  /\ [](\A i \in 1..Len(uploads) : uploads[i].type \in validTypes)
  /\ [][ last.op = "handleFileChange:badType"
         => last'.op # "handleSubmit:uploadJSON" ]_vars

\* C4 amended: selecting a file of a non-accepted type starts no uploadImage call
\* and changes no component state (an alert is shown); a submit starts a metadata
\* upload only with the hash of an accepted file's upload in formData.imageHash.
C4_BadTypeNeverUploaded ==
  /\ [](\A i \in 1..Len(uploads) : uploads[i].type \in validTypes)
  /\ [][ last'.op = "handleFileChange:badType"
         => /\ last'.notice = "alert"
            /\ UNCHANGED << formVars, flagVars, web3Vars, uploads, readers, subs >> ]_vars
  /\ [][ last'.op = "handleSubmit:uploadJSON"
         => formData.imageHash \in { r.hash : r \in UploadResults } ]_vars

C4_Witness == last.op = "handleFileChange:badType" /\ formData.imageHash # ""

\* C5: when a storage upload throws (uploadImage or uploadJSON) the turn that
\* handles it shows the user an error notification and leaves the form editable
\* (step = 1, isSubmitting and uploading false), and the submission whose
\* uploadJSON threw ends without a contract call.
C5_StorageFailureReported ==
  [][ last'.op \in {"handleFileChange:failed", "handleSubmit:uploadJSON:failed"}
      => /\ last'.notice \in {"toast.error", "alert"}
         /\ step' = 1
         /\ ~isSubmitting'
         /\ ~uploading'
         /\ last'.op = "handleSubmit:uploadJSON:failed"
              => \E i \in 1..Len(subs) :
                   subs' = RemoveAt(subs, i) /\ subs[i].call = NoCall ]_vars

\* C6: step becomes 2 exactly in the turn in which a submission's tx.wait()
\* resolved, after its metadata upload and contract call resolved; while a
\* submission is in flight, and when one fails, step stays 1.
C6_SuccessViewIffConfirmed ==
  /\ [](subs # << >> => step = 1)
  /\ [][ (step' = 2 /\ step # 2)
         => /\ last'.op = "handleSubmit:confirmed"
            /\ \E i \in 1..Len(subs) :
                 subs[i].trace = FullTrace /\ subs' = RemoveAt(subs, i) ]_vars
  /\ [][ (\E i \in 1..Len(subs) : subs[i].pc = "tx.wait" /\ subs' = RemoveAt(subs, i))
         => (step' = 2 <=> last'.op = "handleSubmit:confirmed") ]_vars
  /\ [][ last'.op \in SubmitFailedOps => step' = 1 ]_vars

C6_Witness == step = 2 /\ last.op = "handleSubmit:confirmed"

\* C7: when a step of a submission fails the handler runs none of the later steps
\* and finishes with step = 1, formData and imagePreview as they were and the three
\* flags false; before confirmation handleSubmit writes nothing but the flags.
C7_FailureLeavesFormAsItWas ==
  /\ [][ last'.op \in SubmitFailedOps
         => /\ \E i \in 1..Len(subs) :
                 /\ subs' = RemoveAt(subs, i)
                 /\ last'.op = "handleSubmit:" \o subs[i].trace[Len(subs[i].trace)] \o ":failed"
            /\ step' = 1
            /\ UNCHANGED << formData, imagePreview >>
            /\ ~isSubmitting' /\ ~uploading' /\ ~isBlockchainUploading' ]_vars
  /\ [][ last'.op \in SubmitOps \ {"handleSubmit:confirmed"}
         => UNCHANGED << formVars, web3Vars, uploads, readers >> ]_vars

C7_Witness ==
  /\ last.op = "handleSubmit:issueCredential:failed"
  /\ ~isSubmitting /\ ~uploading /\ ~isBlockchainUploading

\* Two runs got the same form fields, account and file hash.
SameInputs(a, b) == a.formData = b.formData /\ a.account = b.account

\* C8 as claimed: a run with the form fields, account and file hash of the run
\* before it passes the same certificateHash to issueCredential.
C8_Original ==
  \A s \in Subs : \A r \in { prevRun[i] : i \in 1..Len(prevRun) } :
    (Called(s) /\ SameInputs(s, r)) => s.call[2] = r.call[2]

\* C8 amended: a run whose metadata document (the issueDate read at submission
\* included) equals that of the run before it passes the same certificateHash.
C8_SameDocumentSameHash ==
  \A s \in Subs : \A r \in { prevRun[i] : i \in 1..Len(prevRun) } :
    (Called(s) /\ s.metadata = r.metadata) => s.call[2] = r.call[2]

C8_Witness ==
  \E s \in Subs : \E r \in { prevRun[i] : i \in 1..Len(prevRun) } :
    Called(s) /\ s.metadata = r.metadata

\* C9: a file larger than the advertised limit is never handed to uploadImage.
C9_OversizedNeverUploaded ==
  \A i \in 1..Len(uploads) : uploads[i].size <= SizeLimitMB

\* C10: a submission runs uploadJSON, the local hash, issueCredential and
\* tx.wait() in that order, each started after the one before resolved and one
\* outstanding at a time, and issueCredential gets (formData.studentAddress, the
\* hash of the metadata, formData.imageHash, the hash uploadJSON returned).
C10_SequentialStepsAndArguments ==
  \A s \in Subs :
    /\ s.trace = SubSeq(FullTrace, 1, Len(s.trace))
    /\ s.trace[Len(s.trace)] = s.pc
    /\ Len(s.trace) \in {1, 4, 6}
    /\ ~Called(s) => s.call = NoCall
    /\ Called(s) =>
         /\ s.metadataHash \in MetadataHashes
         /\ s.call = << s.formData.studentAddress,
                        keccak256(JSONStringify(s.metadata)),
                        s.formData.imageHash,
                        s.metadataHash,
                        s.account >>

C10_Witness == \E s \in Subs : s.pc = "tx.wait" /\ s.trace = FullTrace

\* C11: if every awaited call eventually settles, a started submission eventually
\* ends, whatever its outcome, with isSubmitting false again: the in-flight guard
\* blocks later submissions only for a while.
C11_SubmissionTerminates ==
  /\ (subs # << >>) ~> (subs = << >> /\ ~isSubmitting)
  /\ isSubmitting ~> ~isSubmitting

C11_Witness ==
  /\ last.op \in SubmitFailedOps \cup {"handleSubmit:confirmed"}
  /\ subs = << >>
  /\ ~isSubmitting

\* C13: uploading is true whenever a file upload or a submission is in flight, so
\* the submit button is disabled while a file upload is outstanding.
C13_UploadingCoversInFlight ==
  /\ (uploads # << >> \/ subs # << >>) => uploading
  /\ uploads # << >> => SubmitDisabled

\* C14: every issueCredential call agrees with the metadata document of its
\* submission, whatever changed in the form or the wallet meanwhile: subject
\* address, file hash and sender are the document's, and the hash passed is the
\* hash of the document handed to uploadJSON.
C14_CallConsistentWithMetadata ==
  \A s \in Subs :
    Called(s) =>
      /\ s.call[1] = s.metadata.studentAddress
      /\ s.call[3] = s.metadata.imageHash
      /\ s.call[5] = s.metadata.issuerAddress
      /\ s.call[2] = keccak256(JSONStringify(s.metadata))
      /\ s.certificateHash = s.call[2]

C14_Witness ==
  \E s \in Subs :
    /\ Called(s)
    /\ formData.studentAddress # s.formData.studentAddress
    /\ formData.imageHash # s.formData.imageHash
    /\ account # s.account

\* C12: once every uploadImage call has settled, the form holds the hash and url
\* of the most recently selected file among those uploaded successfully, in
\* whatever order the uploads completed.
C12_NewestSelectionWins ==
  (newest.on /\ uploads = << >> /\ newest.result # NoUpload) =>
    /\ formData.imageHash = newest.result.hash
    /\ formData.imageUrl = newest.result.url

====
